---- MODULE Spec2Model ----
(***************************************************************************)
(* A model of the layout engine of sankeyflow.py (SankeyNode, SankeyFlow,  *)
(* Sankey).  One call of Sankey.sankey() is a run of the state machine:    *)
(* node inference, the scale loop, one step per level of node creation,    *)
(* one step per flow of flow attachment, one step per level of tree        *)
(* alignment.  Axis quantities are exact rationals <<numerator,            *)
(* denominator>>, so "equal" below means equal as real numbers; the        *)
(* program computes the same expressions in binary floating point.         *)
(***************************************************************************)
EXTENDS Integers, Sequences, FiniteSets, TLC

VARIABLES
    cfg,          \* the Sankey object's options (Sankey.__init__)
    in_flows,     \* argument flows of sankey()
    in_nodes,     \* argument nodes of sankey(); <<>> when omitted
    pc,           \* position inside sankey()
    lv,           \* local `nodes`: the levels, after inference
    widest_level, \* local widest_level
    value_scale,  \* local value_scale
    k,            \* index of the loop the call is in
    i_color,      \* local i_color
    nodes,        \* self.nodes
    flows,        \* self.flows
    err,          \* the exception that ended the call, "" if none
    call,         \* how many times sankey() was called on this input
    first         \* self.nodes and self.flows as the first call left them

vars == <<cfg, in_flows, in_nodes, pc, lv, widest_level, value_scale, k,
          i_color, nodes, flows, err, call, first>>

----------------------------------------------------------------------------
(* Rational arithmetic: the program's float expressions, computed exactly. *)

Abs(n) == IF n < 0 THEN -n ELSE n

RECURSIVE GCD(_, _)
GCD(a, b) == IF b = 0 THEN a ELSE GCD(b, a % b)

\* n/d in lowest terms with a positive denominator (d # 0)
Rat(n, d) ==
    LET g == GCD(Abs(n), Abs(d))
        s == IF d < 0 THEN -1 ELSE 1
    IN  <<(s * n) \div g, (s * d) \div g>>

Zero == <<0, 1>>
One == <<1, 1>>
RInt(n) == <<n, 1>>
RAdd(a, b) == Rat(a[1] * b[2] + b[1] * a[2], a[2] * b[2])
RSub(a, b) == Rat(a[1] * b[2] - b[1] * a[2], a[2] * b[2])
RMul(a, b) == Rat(a[1] * b[1], a[2] * b[2])
RDiv(a, b) == Rat(a[1] * b[2], a[2] * b[1])
RLt(a, b) == a[1] * b[2] < b[1] * a[2]
RLe(a, b) == a[1] * b[2] <= b[1] * a[2]
RMin(a, b) == IF RLe(a, b) THEN a ELSE b
RMax(a, b) == IF RLe(a, b) THEN b ELSE a
\* np.clip(x, lo, hi) = minimum(maximum(x, lo), hi)
RClip(x, lo, hi) == RMin(RMax(x, lo), hi)

\* a list built element by element: the tuple of the values s[1], ..., s[n]
List(s) == SubSeq(s, 1, Len(s))

\* np.sum of a sequence of rationals
RECURSIVE RSum(_)
RSum(s) == IF s = <<>> THEN Zero ELSE RAdd(s[1], RSum(Tail(s)))

\* s[:n]
Prefix(s, n) == SubSeq(s, 1, n)

Reverse(s) == List([j \in 1..Len(s) |-> s[Len(s) + 1 - j]])

\* np.cumsum
CumSum(s) == List([j \in 1..Len(s) |-> RSum(Prefix(s, j))])

RECURSIVE RMaxOf(_)
RMaxOf(s) == IF Len(s) = 1 THEN s[1] ELSE RMax(s[1], RMaxOf(Tail(s)))

\* variant: the shifts are taken as they are, without the running maximum
MaxAccumulate_None(s) == s

\* np.maximum.accumulate
MaxAccumulate(s) == List([j \in 1..Len(s) |-> RMaxOf(Prefix(s, j))])

----------------------------------------------------------------------------
(* SankeyNode and SankeyFlow.  A node is a record [gen, name, value, x, y,  *)
(* height, color, flow_pad, align_y, inflows, outflows]; x is the level,    *)
(* 0-based as in the code.  A flow is a record [gen, n, src, des, value,    *)
(* src_i, des_i, color]; src and des are references <<gen, level, pos>> to  *)
(* node objects, src_i and des_i are 0-based as in the code.  gen is the    *)
(* call of sankey() that created the object.                                *)

\* SankeyNode.__init__
NewNode(g, level, y, height, name, value, color, align) ==
    [gen |-> g, name |-> name, value |-> value, x |-> level, y |-> y,
     height |-> height, color |-> color, flow_pad |-> Zero, align_y |-> align,
     inflows |-> <<>>, outflows |-> <<>>]

\* the values of a list of flows, x.value for x in flows
FlowValues(fl) == List([j \in 1..Len(fl) |-> RInt(fl[j].value)])

\* the list getattr(self, side)
SideFlows(node, side) == IF side = "inflows" THEN node.inflows ELSE node.outflows

\* the 'top overlap' branch of get_flow_y is taken
Overlaps(node, side) ==
    /\ node.align_y = "top overlap"
    /\ RLt(RInt(node.value), RSum(FlowValues(SideFlows(node, side))))

\* get_flow_y ends in an exception: "" when it returns
FlowYError(node, side) ==
    IF Overlaps(node, side) /\ Len(SideFlows(node, side)) = 1
    THEN "ZeroDivisionError"
    ELSE IF node.align_y \notin {"top", "top overlap"}
    THEN "NotImplementedError"
    ELSE ""

\* variant: the scale of the endpoints leaves no room for flow_pad
get_flow_y_NoPad(node, i, side) ==
    LET fl == SideFlows(node, side)
        vs == RDiv(RInt(node.value), node.height)
        before == RDiv(RSum(FlowValues(Prefix(fl, i))), vs)
        y1 == RSub(RAdd(node.y, node.height),
                   RAdd(before, RMul(node.flow_pad, RInt(i))))
    IN  <<RSub(y1, RDiv(RInt(fl[i + 1].value), vs)), y1>>

\* SankeyNode.get_flow_y(i, side): <<y_low, y_hi>>, i 0-based
get_flow_y(node, i, side) ==
    LET fl == SideFlows(node, side)
        n == Len(fl)
        vs == RDiv(RInt(node.value),
                   RSub(node.height, RMul(node.flow_pad, RInt(n - 1))))
        before == RDiv(RSum(FlowValues(Prefix(fl, i))), vs)
        total == RSum(FlowValues(fl))
        overlap == RDiv(RDiv(RSub(total, RInt(node.value)), RInt(n - 1)), vs)
        pad == IF Overlaps(node, side) THEN RSub(node.flow_pad, overlap)
               ELSE node.flow_pad
        y1 == RSub(RAdd(node.y, node.height), RAdd(before, RMul(pad, RInt(i))))
        y0 == RSub(y1, RDiv(RInt(fl[i + 1].value), vs))
    IN  <<y0, y1>>

----------------------------------------------------------------------------
(* Sankey.infer_nodes.  A flow of the input is a record [src, des, value,   *)
(* mode]: names, a number, and the per-flow option flow_color_mode          *)
(* ("unset" when the flow gives none).                                      *)

\* the names of a flow list in dict insertion order: source, then destination
RECURSIVE NameOrder(_, _)
NameOrder(fl, acc) ==
    IF fl = <<>> THEN acc
    ELSE LET a1 == IF \E j \in 1..Len(acc) : acc[j] = fl[1].src THEN acc
                   ELSE Append(acc, fl[1].src)
             a2 == IF \E j \in 1..Len(a1) : a1[j] = fl[1].des THEN a1
                   ELSE Append(a1, fl[1].des)
         IN  NameOrder(Tail(fl), a2)

\* the defaultdict entry [min_level, in_value, out_value, parents, children]
NewInfo == [min |-> 0, inv |-> 0, outv |-> 0, parents |-> {}, children |-> {}]

\* one iteration of the forward pass (lines 279-288)
InferStep(info, flow) ==
    LET s == flow.src
        d == flow.des
        dmin == IF info[d].min <= info[s].min THEN info[s].min + 1
                ELSE info[d].min
        i1 == [info EXCEPT ![d].min = dmin]
        i2 == [i1 EXCEPT ![s].outv = @ + flow.value]
        i3 == [i2 EXCEPT ![d].inv = @ + flow.value]
        i4 == [i3 EXCEPT ![s].children = @ \cup {d}]
    IN  [i4 EXCEPT ![d].parents = @ \cup {s}]

RECURSIVE InferPass(_, _)
InferPass(info, fl) ==
    IF fl = <<>> THEN info ELSE InferPass(InferStep(info, fl[1]), Tail(fl))

SetMax(S) == CHOOSE m \in S : \A x \in S : x <= m

\* "maximize the level" (lines 293-295)
InferLevel(info, name) ==
    SetMax({info[name].min} \cup {info[c].min - 1 : c \in info[name].children})

RECURSIVE LevelEntries(_, _, _)
LevelEntries(order, info, level) ==
    IF order = <<>> THEN <<>>
    ELSE LET rest == LevelEntries(Tail(order), info, level)
             nm == order[1]
             v == IF info[nm].inv >= info[nm].outv THEN info[nm].inv
                  ELSE info[nm].outv
         IN  IF InferLevel(info, nm) = level
             THEN <<[name |-> nm, value |-> v]>> \o rest
             ELSE rest

\* Sankey.infer_nodes(flows): the nested list arr
infer_nodes(fl) ==
    LET order == NameOrder(fl, <<>>)
        names == {order[j] : j \in 1..Len(order)}
        info == InferPass([nm \in names |-> NewInfo], fl)
        max_level == SetMax({0} \cup {info[nm].min : nm \in names})
    IN  List([l \in 1..(max_level + 1) |-> LevelEntries(order, info, l - 1)])

----------------------------------------------------------------------------
(* The scale solver and the vertical packer.  A level of the input is a     *)
(* sequence of records [name, value].  The options align_y, node_pad_y_min, *)
(* node_pad_y_max and node_height_pad_min are scalars here, so _get_opt     *)
(* returns them whatever the level.                                         *)

\* [node[1] for node in nodes_level]
LevelValues(nodes_level) ==
    List([j \in 1..Len(nodes_level) |-> RInt(nodes_level[j].value)])

\* heights[~smalls]
RECURSIVE Larger(_, _, _)
Larger(heights, scale, floor) ==
    IF heights = <<>> THEN <<>>
    ELSE IF RLe(RDiv(heights[1], scale), floor)
         THEN Larger(Tail(heights), scale, floor)
         ELSE <<heights[1]>> \o Larger(Tail(heights), scale, floor)

\* the value of 0 / 0, which numpy gives as nan: no number, and every
\* comparison with it is false
NaN == <<0, 0>>

\* np.sum(heights) / (1 - min_pad - nsmall * node_height_pad_min), line 328
ScaleOf(heights, nsmall, min_pad, floor) ==
    LET den == RSub(RSub(One, min_pad), RMul(RInt(nsmall), floor))
    IN  IF den = Zero /\ heights = <<>> THEN NaN ELSE RDiv(RSum(heights), den)

\* the while loop of _value_scale_level (lines 324-330), iteration by
\* iteration: the heights still counted, the scale and nsmall, on entry and
\* after every iteration
RECURSIVE ScaleTrace(_, _, _, _, _)
ScaleTrace(heights, scale, nsmall, min_pad, floor) ==
    LET rest == IF scale = NaN THEN heights ELSE Larger(heights, scale, floor)
        ns == nsmall + (Len(heights) - Len(rest))
        here == [heights |-> heights, scale |-> scale, nsmall |-> nsmall]
    IN  IF Len(rest) = Len(heights) THEN <<here>>
        ELSE <<here>> \o ScaleTrace(rest, ScaleOf(rest, ns, min_pad, floor),
                                    ns, min_pad, floor)

\* the scale the while loop ends with
ScaleLoop(heights, scale, nsmall, min_pad, floor) ==
    LET trace == ScaleTrace(heights, scale, nsmall, min_pad, floor)
    IN  trace[Len(trace)].scale

\* Sankey._value_scale_level: [err, scale]
value_scale_level(c, nodes_level) ==
    LET n == Len(nodes_level)
        min_pad == RMul(c.node_pad_y_min, RInt(n - 1))
        heights == LevelValues(nodes_level)
        scale == RDiv(RSum(heights), RSub(One, min_pad))
        floor == c.node_height_pad_min
    IN  IF floor = Zero THEN [err |-> "", scale |-> scale]
        ELSE IF RLt(One, RAdd(RMul(floor, RInt(n)), min_pad))
        THEN [err |-> "ValueError", scale |-> Zero]
        ELSE [err |-> "", scale |-> ScaleLoop(heights, scale, 0, min_pad, floor)]

\* variant: the slack is shared among the nodes, not among the gaps
level_node_max_padding_PerNode(c, nodes_level, vscale) ==
    IF Len(nodes_level) < 2 THEN Zero
    ELSE LET hs == List([j \in 1..Len(nodes_level) |->
                      RMax(RDiv(RInt(nodes_level[j].value), vscale),
                           c.node_height_pad_min)])
         IN  RDiv(RSub(One, RSum(hs)), RInt(Len(nodes_level)))

\* Sankey._level_node_max_padding
level_node_max_padding(c, nodes_level, vscale) ==
    IF Len(nodes_level) < 2 THEN Zero
    ELSE LET hs == List([j \in 1..Len(nodes_level) |->
                      RMax(RDiv(RInt(nodes_level[j].value), vscale),
                           c.node_height_pad_min)])
         IN  RDiv(RSub(One, RSum(hs)), RInt(Len(nodes_level) - 1))

\* variant: the padding takes all the slack under every alignment
NodePadY_Unclamped(c, nodes_level, vscale) ==
    level_node_max_padding(c, nodes_level, vscale)

\* node_pad_y of _get_node_ys (lines 353-357)
NodePadY(c, nodes_level, vscale) ==
    LET max_padding == level_node_max_padding(c, nodes_level, vscale)
    IN  IF c.align_y = "justify" THEN max_padding
        ELSE RMin(max_padding, RMax(c.node_pad_y_max, c.node_pad_y_min))

\* the loop of the general case, top to bottom (lines 382-391): y is the
\* running position before node j
RECURSIVE PackDown(_, _, _, _, _)
PackDown(nodes_level, j, y, c, env) ==
    IF j > Len(nodes_level) THEN <<>>
    ELSE LET height == RDiv(RInt(nodes_level[j].value), env.scale)
             floor == c.node_height_pad_min
             half == RDiv(RSub(floor, height), RInt(2))
             y1 == RSub(y, height)
             pos == IF RLt(height, floor) THEN RSub(y1, half) ELSE y1
             y2 == IF RLt(height, floor) THEN RSub(pos, half) ELSE pos
         IN  <<<<pos, height>>>> \o
             PackDown(nodes_level, j + 1, RSub(y2, env.pad), c, env)

\* the loop of align_y == 'bottom', bottom to top (lines 368-377): every
\* node so far was under the floor
RECURSIVE PackUp(_, _, _, _, _)
PackUp(nodes_level, j, y, c, env) ==
    IF j < 1 THEN <<>>
    ELSE LET height == RDiv(RInt(nodes_level[j].value), env.scale)
             floor == c.node_height_pad_min
             pos == RAdd(y, RDiv(RSub(floor, height), RInt(2)))
         IN  PackUp(nodes_level, j - 1, RAdd(y, RAdd(floor, env.pad)), c, env)
             \o <<<<pos, height>>>>

\* In the 'bottom' loop a node that is not under the floor reads the name
\* actual_height, which is bound nowhere (line 377)
BottomRaises(c, nodes_level, vscale) ==
    \E j \in 1..Len(nodes_level) :
        ~RLt(RDiv(RInt(nodes_level[j].value), vscale), c.node_height_pad_min)

\* Sankey._get_node_ys: [err, ys], ys a sequence of <<y_low, height>>
get_node_ys(c, nodes_level, vscale) ==
    LET n == Len(nodes_level)
        max_padding == level_node_max_padding(c, nodes_level, vscale)
        node_pad_y == NodePadY(c, nodes_level, vscale)
        env == [scale |-> vscale, pad |-> node_pad_y]
        height1 == RDiv(RInt(nodes_level[1].value), vscale)
        top == IF c.align_y = "center"
               THEN RSub(One, RDiv(RMul(RSub(max_padding, node_pad_y), RInt(n - 1)),
                                   RInt(2)))
               ELSE One
    IN  IF vscale = Zero
        THEN [err |-> "ZeroDivisionError", ys |-> <<>>]
        ELSE IF n = 1 /\ c.align_y \in {"center", "justify"}
        THEN [err |-> "",
              ys |-> <<<<RDiv(RSub(One, height1), RInt(2)), height1>>>>]
        ELSE IF c.align_y = "bottom"
        THEN IF BottomRaises(c, nodes_level, vscale)
             THEN [err |-> "NameError", ys |-> <<>>]
             ELSE [err |-> "", ys |-> PackUp(nodes_level, n, Zero, c, env)]
        ELSE [err |-> "", ys |-> PackDown(nodes_level, 1, top, c, env)]

----------------------------------------------------------------------------
(* Flow attachment: find_node, the colour rule, SankeyFlow.__init__.        *)

None == "None"

\* entries of the colormap tab10 (cmap.N)
CmapN == 10

\* the positions <<level, pos>> of the nodes called name, in the order
\* find_node visits them; level is 0-based
Found(ns, name) ==
    {lp \in UNION {{<<l - 1, p>> : p \in 1..Len(ns[l])} : l \in 1..Len(ns)} :
        ns[lp[1] + 1][lp[2]].name = name}

\* Sankey.find_node: <<level, pos>> of the first node called name, None if
\* there is none
find_node(ns, name) ==
    IF Found(ns, name) = {} THEN None
    ELSE CHOOSE lp \in Found(ns, name) :
            \A o \in Found(ns, name) :
                lp[1] < o[1] \/ (lp[1] = o[1] /\ lp[2] <= o[2])

NodeAt(ns, lp) == ns[lp[1] + 1][lp[2]]

\* custom_opts.get('flow_color_mode', self.flow_color_mode)
EffectiveMode(c, flow) ==
    IF flow.mode = "unset" THEN c.flow_color_mode ELSE flow.mode

\* the "Auto color" chain (lines 457-466); the membership test of a mode
\* that is None raises
BaseColor(mode, src, des) ==
    IF mode = None THEN [err |-> "TypeError", color |-> "#AAAAAA"]
    ELSE IF mode = "dest" THEN [err |-> "", color |-> des.color]
    ELSE IF mode = "source" THEN [err |-> "", color |-> src.color]
    ELSE IF mode = "lesser"
    THEN [err |-> "", color |-> IF src.value < des.value THEN src.color ELSE des.color]
    ELSE IF mode = "greater"
    THEN [err |-> "", color |-> IF src.value > des.value THEN src.color ELSE des.color]
    ELSE [err |-> "", color |-> "#AAAAAA"]

\* variant: a flow between two nodes of one level is let through
FlowError_SameLevel(c, ns, flow) ==
    LET s == find_node(ns, flow.src)
        d == find_node(ns, flow.des)
    IN  IF s = None THEN "KeyError"
        ELSE IF d = None THEN "KeyError"
        ELSE IF d[1] < s[1] THEN "ValueError"
        ELSE BaseColor(EffectiveMode(c, flow), NodeAt(ns, s), NodeAt(ns, d)).err

\* the exception one iteration of the flow loop ends in (lines 441-467),
\* "" if it creates the flow
FlowError(c, ns, flow) ==
    LET s == find_node(ns, flow.src)
        d == find_node(ns, flow.des)
    IN  IF s = None THEN "KeyError"
        ELSE IF d = None THEN "KeyError"
        ELSE IF d[1] <= s[1] THEN "ValueError"
        ELSE BaseColor(EffectiveMode(c, flow), NodeAt(ns, s), NodeAt(ns, d)).err

\* SankeyFlow.__init__, as called at line 474
NewFlow(c, ns, fs, flow) ==
    LET s == find_node(ns, flow.src)
        d == find_node(ns, flow.des)
        src == NodeAt(ns, s)
        des == NodeAt(ns, d)
        base == BaseColor(EffectiveMode(c, flow), src, des).color
    IN  [gen |-> call, n |-> Len(fs) + 1,
         src |-> <<src.gen, s[1], s[2]>>, des |-> <<des.gen, d[1], d[2]>>,
         value |-> flow.value,
         src_i |-> Len(src.outflows), des_i |-> Len(des.inflows),
         color |-> <<base, RMul(One, c.flow_color_mode_alpha)>>]

\* variant: the flow is put at the head of both lists
Attach_Front(ns, f) ==
    LET n1 == [ns EXCEPT ![f.src[2] + 1][f.src[3]].outflows = <<f>> \o @]
    IN  [n1 EXCEPT ![f.des[2] + 1][f.des[3]].inflows = <<f>> \o @]

\* src.outflows.append(self); des.inflows.append(self)
Attach(ns, f) ==
    LET n1 == [ns EXCEPT ![f.src[2] + 1][f.src[3]].outflows = Append(@, f)]
    IN  [n1 EXCEPT ![f.des[2] + 1][f.des[3]].inflows = Append(@, f)]

----------------------------------------------------------------------------
(* The tree aligner, Sankey._layout_tree_level.                             *)

Deref(ns, ref) == ns[ref[2] + 1][ref[3]]

\* node.inflows if right else node.outflows
AnchorSide(node, right) == IF right THEN node.inflows ELSE node.outflows

\* the node at the far end of a flow, and the flow's index there
Anchor(ns, flow, right) == IF right THEN Deref(ns, flow.src) ELSE Deref(ns, flow.des)
AnchorIndex(flow, right) == IF right THEN flow.src_i ELSE flow.des_i
NearIndex(flow, right) == IF right THEN flow.des_i ELSE flow.src_i
FarSide(right) == IF right THEN "outflows" ELSE "inflows"
NearSide(right) == IF right THEN "inflows" ELSE "outflows"

\* the exception the two get_flow_y calls of one flow end in (lines 500-505)
FlowTreeError(ns, node, flow, right) ==
    IF FlowYError(Anchor(ns, flow, right), FarSide(right)) # ""
    THEN FlowYError(Anchor(ns, flow, right), FarSide(right))
    ELSE FlowYError(node, NearSide(right))

\* the exception the inner loop of one node ends in, "" if none
NodeTreeError(ns, node, right) ==
    LET fl == AnchorSide(node, right)
        bad == {j \in 1..Len(fl) : FlowTreeError(ns, node, fl[j], right) # ""}
    IN  IF bad = {} THEN ""
        ELSE FlowTreeError(ns, node, fl[CHOOSE j \in bad : \A o \in bad : j <= o], right)

\* y_ideal_node of one flow (line 506); node.y was set to 0 (line 496)
YIdealFlow(ns, node, flow, right) ==
    LET y_anchor == get_flow_y(Anchor(ns, flow, right),
                               AnchorIndex(flow, right), FarSide(right))[1]
        y_flow_node == get_flow_y([node EXCEPT !.y = Zero],
                                  NearIndex(flow, right), NearSide(right))[1]
    IN  RClip(RSub(y_anchor, y_flow_node), Zero, One)

\* total_weights of one node
TotalWeights(node, right) == RSum(FlowValues(AnchorSide(node, right)))

HasStress(node, right) == RLt(Zero, TotalWeights(node, right))

\* y_ideal[i] (lines 497-512)
YIdeal(ns, node, right) ==
    LET fl == AnchorSide(node, right)
        total_ys == RSum(List([j \in 1..Len(fl) |->
                            RMul(YIdealFlow(ns, node, fl[j], right), RInt(fl[j].value))]))
    IN  IF HasStress(node, right) THEN RDiv(total_ys, TotalWeights(node, right))
        ELSE Zero

\* y_max (lines 515-523): y is the running position before node j
RECURSIVE YMax(_, _, _, _)
YMax(nodes_level, j, y, c) ==
    IF j > Len(nodes_level) THEN <<>>
    ELSE LET h == nodes_level[j].height
             floor == c.node_height_pad_min
         IN  IF RLt(h, floor)
             THEN <<RSub(y, RDiv(RAdd(floor, h), RInt(2)))>> \o
                  YMax(nodes_level, j + 1, RSub(y, RAdd(floor, c.node_pad_y_min)), c)
             ELSE <<RSub(y, h)>> \o
                  YMax(nodes_level, j + 1, RSub(y, RAdd(h, c.node_pad_y_min)), c)

\* np.cumsum(has_stress[::-1]) with at least 1
StressCount(has) ==
    List([j \in 1..Len(has) |->
        LET cnt == Cardinality({m \in 1..j : has[m]})
        IN  RInt(IF cnt < 1 THEN 1 ELSE cnt)])

\* y_desired_shift before the running maximum (lines 530-534)
YDesiredShift(c, y_max, y_ideal, has) ==
    LET n == Len(y_max)
        y_flex == y_max[n]
        y_stress == List([j \in 1..n |->
                            IF has[j] THEN RSub(y_max[j], y_ideal[j]) ELSE Zero])
        sums == CumSum(Reverse(y_stress))
        counts == StressCount(Reverse(has))
        average_stress == Reverse(List([j \in 1..n |-> RDiv(sums[j], counts[j])]))
        desired == List([j \in 1..n |-> RMin(y_stress[j], average_stress[j])])
    IN  IF c.align_y = "tree clamp"
        THEN List([j \in 1..n |-> RClip(desired[j], Zero, y_flex)])
        ELSE desired

\* y_new (lines 535-536)
YNew(c, ns, level, right) ==
    LET nodes_level == ns[level + 1]
        n == Len(nodes_level)
        y_ideal == List([j \in 1..n |-> YIdeal(ns, nodes_level[j], right)])
        has == List([j \in 1..n |-> HasStress(nodes_level[j], right)])
        y_max == YMax(nodes_level, 1, One, c)
        y_shift == MaxAccumulate(YDesiredShift(c, y_max, y_ideal, has))
    IN  List([j \in 1..n |-> RSub(y_max[j], y_shift[j])])

\* the exception _layout_tree_level ends in, "" if none: a get_flow_y call
\* that raises, or y_max[-1] of a level without nodes (line 524)
TreeLevelError(ns, level, right) ==
    LET nodes_level == ns[level + 1]
        bad == {j \in 1..Len(nodes_level) : NodeTreeError(ns, nodes_level[j], right) # ""}
    IN  IF bad # {}
        THEN NodeTreeError(ns, nodes_level[CHOOSE j \in bad : \A o \in bad : j <= o], right)
        ELSE IF Len(nodes_level) = 0 THEN "IndexError"
        ELSE ""

\* self.nodes after _layout_tree_level(level, right).  When a get_flow_y call
\* raises at node j, the nodes up to j were already moved to y = 0.
layout_tree_level(c, ns, level, right) ==
    LET nodes_level == ns[level + 1]
        bad == {j \in 1..Len(nodes_level) : NodeTreeError(ns, nodes_level[j], right) # ""}
        stop == IF bad = {} THEN 0 ELSE CHOOSE j \in bad : \A o \in bad : j <= o
        y_new == YNew(c, ns, level, right)
    IN  IF TreeLevelError(ns, level, right) = ""
        THEN [ns EXCEPT ![level + 1] =
                List([j \in 1..Len(nodes_level) |->
                        [nodes_level[j] EXCEPT !.y = y_new[j]]])]
        ELSE [ns EXCEPT ![level + 1] =
                List([j \in 1..Len(nodes_level) |->
                        IF j <= stop THEN [nodes_level[j] EXCEPT !.y = Zero]
                        ELSE nodes_level[j]])]

----------------------------------------------------------------------------
(* Sankey.sankey() as a state machine.                                      *)

\* what a finished call leaves, as a caller sees it: per node its name,
\* offset, height and the endpoint intervals of its flows
Intervals(node, side) ==
    IF FlowYError(node, side) # "" THEN <<FlowYError(node, side)>>
    ELSE List([j \in 1..Len(SideFlows(node, side)) |-> get_flow_y(node, j - 1, side)])

Snap(ns, fs, e) ==
    [set |-> TRUE, err |-> e, nflows |-> Len(fs),
     layout |-> List([l \in 1..Len(ns) |-> List([p \in 1..Len(ns[l]) |->
        [name |-> ns[l][p].name, y |-> ns[l][p].y, height |-> ns[l][p].height,
         ins |-> Intervals(ns[l][p], "inflows"),
         outs |-> Intervals(ns[l][p], "outflows")]])])]

NoSnap == [set |-> FALSE, err |-> "", nflows |-> 0, layout |-> <<>>]

\* the call returns or raises: the first call's result is kept for comparison
Finish(ns, fs, e) == first' = IF call = 1 THEN Snap(ns, fs, e) ELSE first

\* 'tree' in self.align_y
IsTree(c) == c.align_y \in {"tree", "tree clamp"}

\* variant: the loop to the left runs before the loop to the right
FirstTreeLevel_Left(max_level, nlevels) ==
    IF max_level - 1 >= 0 THEN max_level - 1
    ELSE IF max_level + 1 <= nlevels - 1 THEN max_level + 1
    ELSE -1

\* the first level _layout_tree processes (lines 552-555), -1 if none
FirstTreeLevel(max_level, nlevels) ==
    IF max_level + 1 <= nlevels - 1 THEN max_level + 1
    ELSE IF max_level - 1 >= 0 THEN max_level - 1
    ELSE -1

\* variant: the loop to the left starts at the reference level itself
NextTreeLevel_Self(level, max_level, nlevels) ==
    IF level > max_level
    THEN IF level + 1 <= nlevels - 1 THEN level + 1 ELSE max_level
    ELSE IF level - 1 >= 0 THEN level - 1 ELSE -1

\* the level _layout_tree processes after level, -1 if none
NextTreeLevel(level, max_level, nlevels) ==
    IF level > max_level
    THEN IF level + 1 <= nlevels - 1 THEN level + 1
         ELSE IF max_level - 1 >= 0 THEN max_level - 1 ELSE -1
    ELSE IF level - 1 >= 0 THEN level - 1 ELSE -1

\* lines 403-408: nodes are inferred when none are given
Begin ==
    /\ pc = "start"
    /\ lv' = IF in_nodes = <<>> THEN infer_nodes(in_flows) ELSE in_nodes
    /\ widest_level' = 0
    /\ value_scale' = Zero
    /\ k' = 0
    /\ pc' = "scale"
    /\ UNCHANGED <<cfg, in_flows, in_nodes, i_color, nodes, flows, err, call, first>>

\* variant: the node list of the previous call is kept
NodesKept(ns) == ns

\* self.nodes = [] (line 417)
NodesAtStart(ns) == <<>>

\* one iteration of the scale loop (lines 409-413); after the last one,
\* lines 417-418
ScaleLevel ==
    /\ pc = "scale"
    /\ LET r == value_scale_level(cfg, lv[k + 1])
           last == (k + 1 = Len(lv))
       IN  IF r.err # ""
           THEN /\ pc' = "error"
                /\ err' = r.err
                /\ Finish(nodes, flows, r.err)
                /\ UNCHANGED <<widest_level, value_scale, k, nodes, i_color>>
           ELSE /\ IF r.scale # NaN /\ RLt(value_scale, r.scale)
                   THEN value_scale' = r.scale /\ widest_level' = k
                   ELSE UNCHANGED <<value_scale, widest_level>>
                /\ k' = IF last THEN 0 ELSE k + 1
                /\ pc' = IF last THEN "nodes" ELSE "scale"
                /\ nodes' = IF last THEN NodesAtStart(nodes) ELSE nodes
                /\ i_color' = IF last THEN 0 ELSE i_color
                /\ UNCHANGED <<err, first>>
    /\ UNCHANGED <<cfg, in_flows, in_nodes, lv, flows, call>>

\* the nodes of one level (lines 422-435)
LevelNodes(c, level, nodes_level, ys, color0) ==
    List([j \in 1..Len(nodes_level) |->
        NewNode(call, level, ys[j][1], ys[j][2], nodes_level[j].name,
                nodes_level[j].value, <<"cmap", (color0 + j - 1) % CmapN>>,
                c.node_align)])

\* one iteration of the node loop (lines 419-436); after the last one,
\* line 439 and, with no flow to attach, lines 477-478
NodesLevel ==
    /\ pc = "nodes"
    /\ LET r == get_node_ys(cfg, lv[k + 1], value_scale)
           last == (k + 1 = Len(lv))
           arr == LevelNodes(cfg, k, lv[k + 1], r.ys, i_color)
           ns == Append(nodes, arr)
           t == FirstTreeLevel(widest_level, Len(lv))
       IN  IF r.err # ""
           THEN /\ pc' = "error"
                /\ err' = r.err
                /\ Finish(nodes, flows, r.err)
                /\ UNCHANGED <<nodes, flows, i_color, k>>
           ELSE /\ nodes' = ns
                /\ i_color' = i_color + Len(arr)
                /\ flows' = IF last THEN <<>> ELSE flows
                /\ UNCHANGED err
                /\ IF ~last THEN pc' = "nodes" /\ k' = k + 1 /\ UNCHANGED first
                   ELSE IF in_flows # <<>> THEN pc' = "flows" /\ k' = 0 /\ UNCHANGED first
                   ELSE IF IsTree(cfg) /\ t >= 0 THEN pc' = "tree" /\ k' = t /\ UNCHANGED first
                   ELSE pc' = "done" /\ k' = 0 /\ Finish(ns, <<>>, "")
    /\ UNCHANGED <<cfg, in_flows, in_nodes, lv, widest_level, value_scale, call>>

\* one iteration of the flow loop (lines 440-474); after the last one,
\* lines 477-478
FlowStep ==
    /\ pc = "flows"
    /\ LET flow == in_flows[k + 1]
           e == FlowError(cfg, nodes, flow)
           f == NewFlow(cfg, nodes, flows, flow)
           ns == Attach(nodes, f)
           fs == Append(flows, f)
           last == (k + 1 = Len(in_flows))
           t == FirstTreeLevel(widest_level, Len(nodes))
       IN  IF e # ""
           THEN /\ pc' = "error"
                /\ err' = e
                /\ Finish(nodes, flows, e)
                /\ UNCHANGED <<nodes, flows, k>>
           ELSE /\ nodes' = ns
                /\ flows' = fs
                /\ UNCHANGED err
                /\ IF ~last THEN pc' = "flows" /\ k' = k + 1 /\ UNCHANGED first
                   ELSE IF IsTree(cfg) /\ t >= 0 THEN pc' = "tree" /\ k' = t /\ UNCHANGED first
                   ELSE pc' = "done" /\ k' = 0 /\ Finish(ns, fs, "")
    /\ UNCHANGED <<cfg, in_flows, in_nodes, lv, widest_level, value_scale, i_color, call>>

\* one call of _layout_tree_level from _layout_tree (lines 552-555)
TreeLevel ==
    /\ pc = "tree"
    /\ LET right == k > widest_level
           e == TreeLevelError(nodes, k, right)
           ns == layout_tree_level(cfg, nodes, k, right)
           t == NextTreeLevel(k, widest_level, Len(nodes))
       IN  /\ nodes' = ns
           /\ IF e # "" THEN pc' = "error" /\ err' = e /\ k' = k /\ Finish(ns, flows, e)
              ELSE IF t >= 0 THEN pc' = "tree" /\ k' = t /\ UNCHANGED <<err, first>>
              ELSE pc' = "done" /\ k' = 0 /\ UNCHANGED err /\ Finish(ns, flows, "")
    /\ UNCHANGED <<cfg, in_flows, in_nodes, lv, widest_level, value_scale, i_color,
                   flows, call>>

----------------------------------------------------------------------------
(* What a caller does around sankey().                                      *)

\* paddings a caller gives node.flow_pad after the layout
FlowPads == {<<1, 100>>}

\* a caller edits flow_pad of every node once the diagram is laid out
SetFlowPad ==
    /\ pc = "done"
    /\ \A l \in 1..Len(nodes) : \A p \in 1..Len(nodes[l]) : nodes[l][p].flow_pad = Zero
    /\ \E pad \in FlowPads :
        nodes' = List([l \in 1..Len(nodes) |-> List([p \in 1..Len(nodes[l]) |->
                    [nodes[l][p] EXCEPT !.flow_pad = pad]])])
    /\ UNCHANGED <<cfg, in_flows, in_nodes, pc, lv, widest_level, value_scale, k,
                   i_color, flows, err, call, first>>

MaxCalls == 2

\* sankey() is called again with the same arguments, on the same Sankey
\* object or on a new one
Rerun ==
    /\ pc \in {"done", "error"}
    /\ call < MaxCalls
    /\ call' = call + 1
    /\ pc' = "start"
    /\ err' = ""
    /\ \E fresh \in BOOLEAN :
        /\ nodes' = IF fresh THEN <<>> ELSE nodes
        /\ flows' = IF fresh THEN <<>> ELSE flows
    /\ UNCHANGED <<cfg, in_flows, in_nodes, lv, widest_level, value_scale, k,
                   i_color, first>>

----------------------------------------------------------------------------
(* Inputs.                                                                  *)

\* the defaults of Sankey.__init__ (lines 220-223) and of SankeyNode.__init__
DefaultCfg ==
    [align_y |-> "top", node_pad_y_min |-> <<1, 100>>, node_pad_y_max |-> <<1, 20>>,
     node_height_pad_min |-> Zero, flow_color_mode |-> "dest",
     flow_color_mode_alpha |-> <<3, 5>>, node_align |-> "top"]

\* bounds of the inputs: node values, flows per call, nodes per diagram
MaxValue == 3
MaxFlows == 3
MaxNodes == 3

\* sequences over S of length lo..hi
SeqsOf(S, lo, hi) == UNION {[1..n -> S] : n \in lo..hi}

Entry(nm, v) == [name |-> nm, value |-> v]
Edge(s, d, v, m) == [src |-> s, des |-> d, value |-> v, mode |-> m]

\* every variable but the arguments and the options, before the first call
InitCall ==
    /\ pc = "start"
    /\ lv = <<>>
    /\ widest_level = 0
    /\ value_scale = Zero
    /\ k = 0
    /\ i_color = 0
    /\ nodes = <<>>
    /\ flows = <<>>
    /\ err = ""
    /\ call = 1
    /\ first = NoSnap

\* Diagrams with explicit nodes for the flow claims.  Three levels with two
\* nodes in the middle (A; B, C; D), or with two nodes at both ends
\* (A, B; C; D, E).  The widest level is the first, the middle or the last.
Diamond(a, b, c, d) ==
    <<<<Entry("A", a)>>, <<Entry("B", b), Entry("C", c)>>, <<Entry("D", d)>>>>

Hourglass(a, b, c, d, e) ==
    <<<<Entry("A", a), Entry("B", b)>>, <<Entry("C", c)>>,
      <<Entry("D", d), Entry("E", e)>>>>

DiamondEdges == {<<"A", "B">>, <<"A", "C">>, <<"B", "D">>, <<"C", "D">>, <<"A", "D">>}
HourglassEdges == {<<"A", "C">>, <<"B", "C">>, <<"C", "D">>, <<"C", "E">>, <<"A", "D">>}

\* the value of the node called nm in a nested node list
ValueOf(ns, nm) ==
    LET lp == CHOOSE lp \in {<<l, p>> : l \in 1..Len(ns), p \in 1..MaxNodes} :
                  lp[2] <= Len(ns[lp[1]]) /\ ns[lp[1]][lp[2]].name = nm
    IN  ns[lp[1]][lp[2]].value

\* a flow between two nodes that carries as much as the smaller one holds
FullEdge(ns, e) ==
    Edge(e[1], e[2],
         IF ValueOf(ns, e[1]) < ValueOf(ns, e[2]) THEN ValueOf(ns, e[1])
         ELSE ValueOf(ns, e[2]), "unset")

\* the lists of lo..hi different members of S, in every order
ListsOf(S, lo, hi) ==
    {fl \in SeqsOf(S, lo, hi) :
        \A i \in 1..Len(fl) : \A j \in 1..Len(fl) : fl[i] = fl[j] => i = j}

TreeDiagrams ==
    {<<ns, fl>> : ns \in {Diamond(2, 1, 1, 2), Diamond(3, 1, 2, 2), Diamond(2, 2, 1, 3)},
                  fl \in ListsOf(DiamondEdges, 1, MaxFlows)}
    \cup {<<ns, fl>> : ns \in {Hourglass(1, 2, 4, 2, 1)},
                       fl \in ListsOf(HourglassEdges, 1, MaxFlows)}

Init ==
    /\ \E al \in {"tree", "tree clamp"} : cfg = [DefaultCfg EXCEPT !.align_y = al]
    /\ \E d \in TreeDiagrams :
        /\ in_nodes = d[1]
        /\ in_flows = List([j \in 1..Len(d[2]) |-> FullEdge(d[1], d[2][j])])
    /\ InitCall

Next == Begin \/ ScaleLevel \/ NodesLevel \/ FlowStep \/ TreeLevel \/ SetFlowPad

Spec == Init /\ [][Next]_vars

\* Diagrams without flows for the packing claims: one or two levels with at
\* most MaxNodes nodes in all, every alignment policy, with and without a
\* minimum node height, with the default paddings and without padding; the
\* last option set lets two nodes of minimum height fill the axis exactly.
Aligns == {"top", "bottom", "center", "justify", "tree", "tree clamp"}

LevelsOf(n) == [1..n -> 1..MaxValue]

PackLayouts ==
    {<<v>> : v \in UNION {LevelsOf(n) : n \in 1..MaxNodes}}
    \cup UNION {{<<v, w>> : v \in LevelsOf(n), w \in LevelsOf(m)} :
                n \in 1..(MaxNodes - 1), m \in 1..(MaxNodes - 1)}

\* the nodes of a layout are named after their places
Named(layout) ==
    List([l \in 1..Len(layout) |->
        List([p \in 1..Len(layout[l]) |-> Entry(<<l, p>>, layout[l][p])])])

NodeCount(layout) == IF Len(layout) = 1 THEN Len(layout[1])
                     ELSE Len(layout[1]) + Len(layout[2])

PackCfgs ==
    {[DefaultCfg EXCEPT !.align_y = al] : al \in Aligns}
    \cup {[DefaultCfg EXCEPT !.align_y = al, !.node_height_pad_min = <<2, 5>>] :
            al \in Aligns}
    \cup {[DefaultCfg EXCEPT !.align_y = al, !.node_pad_y_min = Zero,
                             !.node_pad_y_max = Zero] : al \in Aligns}
    \cup {[DefaultCfg EXCEPT !.align_y = al, !.node_pad_y_min = Zero,
                             !.node_pad_y_max = Zero,
                             !.node_height_pad_min = <<1, 2>>] : al \in Aligns}

InitPack ==
    /\ cfg \in PackCfgs
    /\ \E layout \in PackLayouts :
        /\ NodeCount(layout) <= MaxNodes
        /\ in_nodes = Named(layout)
    /\ in_flows = <<>>
    /\ InitCall

NextPack == Begin \/ ScaleLevel \/ NodesLevel \/ TreeLevel

SpecPack == InitPack /\ [][NextPack]_vars

\* Flow lists without nodes for the inference claim: every list of at most
\* MaxFlows flows between three names, self-flows and cycles included.
InferNames == {"A", "B", "C"}

InferFlows == {Edge(s, d, v, "unset") : s \in InferNames, d \in InferNames, v \in {1}}

InitInfer ==
    /\ cfg = [DefaultCfg EXCEPT !.align_y = "tree"]
    /\ in_nodes = <<>>
    /\ in_flows \in SeqsOf(InferFlows, 1, MaxFlows)
    /\ InitCall

SpecInfer == InitInfer /\ [][Next]_vars

\* Flow lists for the attachment claims, on the nodes A; B, C; D.  Lists of
\* at most MaxFlows flows of which some name an unknown node, run backwards
\* or join two nodes of one level; and lists of one or two flows under every
\* global and every per-flow colour mode.
BadEdges == {<<"X", "D">>, <<"A", "X">>, <<"D", "A">>, <<"B", "C">>}
GoodEdges == {<<"A", "B">>, <<"B", "D">>}
ColorModes == {"source", "dest", "lesser", "greater", None}

ErrorFlows == {Edge(e[1], e[2], 1, "unset") : e \in BadEdges \cup GoodEdges}

ColorFlows ==
    {Edge(e[1], e[2], 1, m) : e \in {<<"A", "B">>, <<"A", "D">>, <<"C", "D">>},
                              m \in ColorModes \cup {"unset"}}

InitAttach ==
    /\ in_nodes = Diamond(2, 1, 3, 2)
    /\ \/ /\ cfg = [DefaultCfg EXCEPT !.align_y = "tree"]
          /\ in_flows \in SeqsOf(ErrorFlows, 1, MaxFlows)
       \/ /\ \E m \in ColorModes : cfg = [DefaultCfg EXCEPT !.flow_color_mode = m]
          /\ in_flows \in SeqsOf(ColorFlows, 1, 2)
    /\ InitCall

SpecAttach == InitAttach /\ [][Next]_vars

\* Diagrams for the claim about repeated calls: the nodes A; B, C; D with at
\* most two flows, one of them possibly backwards, under three alignments.
RerunFlows == {Edge(e[1], e[2], 1, "unset") : e \in DiamondEdges \cup {<<"D", "A">>}}

InitRerun ==
    /\ \E al \in {"top", "bottom", "tree"} : cfg = [DefaultCfg EXCEPT !.align_y = al]
    /\ in_nodes = Diamond(3, 1, 2, 2)
    /\ in_flows \in SeqsOf(RerunFlows, 1, 2)
    /\ InitCall

NextRerun == Next \/ Rerun

SpecRerun == InitRerun /\ [][NextRerun]_vars

----------------------------------------------------------------------------
(* Properties.                                                              *)

\* the places <<l, p>> of the nodes of self.nodes
Places == UNION {{<<l, p>> : p \in 1..Len(nodes[l])} : l \in 1..Len(nodes)}

Sides == {"inflows", "outflows"}

\* the sides of the laid-out nodes that carry a flow and have endpoints
FlowSides ==
    {ps \in Places \X Sides :
        /\ Len(SideFlows(nodes[ps[1][1]][ps[1][2]], ps[2])) >= 1
        /\ FlowYError(nodes[ps[1][1]][ps[1][2]], ps[2]) = ""}

\* the heights of the endpoint intervals of one side
IntervalHeights(node, side) ==
    LET iv == Intervals(node, side)
    IN  List([j \in 1..Len(iv) |-> RSub(iv[j][2], iv[j][1])])

\* the first interval starts at the top edge of the node
StartsAtTop(node, side) ==
    Intervals(node, side)[1][2] = RAdd(node.y, node.height)

\* the intervals and the paddings between them fill the node exactly
Tiles(node, side) ==
    LET iv == Intervals(node, side)
        n == Len(iv)
    IN  /\ RAdd(RSum(IntervalHeights(node, side)),
                RMul(node.flow_pad, RInt(n - 1))) = node.height
        /\ StartsAtTop(node, side)
        /\ iv[n][1] = node.y

\* the values of the flows of a side add up to the value of the node
SideFull(node, side) == RSum(FlowValues(SideFlows(node, side))) = RInt(node.value)

FromInput(f) ==
    /\ f.n <= Len(in_flows)
    /\ Deref(nodes, f.src).name = in_flows[f.n].src
    /\ Deref(nodes, f.des).name = in_flows[f.n].des
    /\ f.value = in_flows[f.n].value

\* the flows of a side stand in the order of their declaration, and each
\* holds its own position in the list
InDeclarationOrder(node, side) ==
    LET fl == SideFlows(node, side)
    IN  /\ \A i \in 1..Len(fl) :
              (IF side = "inflows" THEN fl[i].des_i ELSE fl[i].src_i) = i - 1
        /\ \A i \in 1..(Len(fl) - 1) : fl[i].n < fl[i + 1].n

\* every interval but the first starts flow_pad below the end of the one before
StackedDown(node, side) ==
    LET iv == Intervals(node, side)
    IN  \A i \in 1..(Len(iv) - 1) : iv[i + 1][2] = RSub(iv[i][1], node.flow_pad)

\* C2: the endpoints of the flows on a side of a node stand in the order in
\* which the flows were declared: flow number j of the diagram is flow j of
\* the input, it sits at outflows[src_i] of its source and at inflows[des_i]
\* of its destination, the lists are in declaration order, and under 'top'
\* the first interval starts at the top edge of the node and every next one
\* starts exactly flow_pad below the end of the one before.
C2_DeclarationOrder ==
    /\ \A j \in 1..Len(flows) :
        /\ flows[j].n = j
        /\ FromInput(flows[j])
        /\ Deref(nodes, flows[j].src).outflows[flows[j].src_i + 1] = flows[j]
        /\ Deref(nodes, flows[j].des).inflows[flows[j].des_i + 1] = flows[j]
    /\ \A lp \in Places : \A side \in Sides :
        InDeclarationOrder(nodes[lp[1]][lp[2]], side)
    /\ \A ps \in FlowSides :
        LET node == nodes[ps[1][1]][ps[1][2]]
        IN  ~Overlaps(node, ps[2]) =>
                StartsAtTop(node, ps[2]) /\ StackedDown(node, ps[2])

\* a node with a non-zero flow_pad and two outflows that were declared with
\* another flow between them
C2_Witness ==
    /\ pc = "done"
    /\ \E lp \in Places :
        LET node == nodes[lp[1]][lp[2]]
        IN  /\ Len(node.outflows) >= 2
            /\ node.outflows[2].n > node.outflows[1].n + 1
            /\ node.flow_pad # Zero

\* the offset of a node of level l (1-based) after the top-aligned packing
PackedY(l, p) == get_node_ys(cfg, lv[l], value_scale).ys[p][1]

\* a level keeps the names of the input in their order
SameNames(l) ==
    /\ Len(nodes[l]) = Len(lv[l])
    /\ \A p \in 1..Len(nodes[l]) : nodes[l][p].name = lv[l][p].name

\* no node of a level reaches above the bottom of the node listed before it
Ordered(l) ==
    \A p \in 1..(Len(nodes[l]) - 1) :
        RLe(RAdd(nodes[l][p + 1].y, nodes[l][p + 1].height), nodes[l][p].y)

\* C6: the tree alignment keeps the order of the nodes of every level: while
\* and after _layout_tree runs, each level lists its nodes as the input does
\* and y[i] >= y[i+1] + height[i+1] for every two adjacent nodes.
C6_TreeKeepsOrder ==
    (IsTree(cfg) /\ pc \in {"tree", "done"}) =>
        \A l \in 1..Len(nodes) : SameNames(l) /\ Ordered(l)

\* a finished tree layout with a two-node level off the reference level
\* whose lower node the aligner has moved down, away from the upper one
C6_Witness ==
    /\ IsTree(cfg) /\ pc = "done"
    /\ \E l \in 1..Len(nodes) :
        /\ l # widest_level + 1
        /\ Len(nodes[l]) = 2
        /\ nodes[l][2].y # PackedY(l, 2)
        /\ RLt(RAdd(cfg.node_pad_y_min,
                    RAdd(nodes[l][2].y, nodes[l][2].height)), nodes[l][1].y)

\* the reference level is as the top-aligned packing left it
ReferencePacked ==
    (IsTree(cfg) /\ pc \in {"tree", "done"}) =>
        \A p \in 1..Len(nodes[widest_level + 1]) :
            LET node == nodes[widest_level + 1][p]
            IN  /\ node.y = PackedY(widest_level + 1, p)
                /\ node.height = RDiv(RInt(node.value), value_scale)

\* a step of _layout_tree changes offsets only, and none of the reference level
TreeStep ==
    pc = "tree" =>
        /\ flows' = flows
        /\ Len(nodes') = Len(nodes)
        /\ \A l \in 1..Len(nodes) :
            /\ Len(nodes'[l]) = Len(nodes[l])
            /\ \A p \in 1..Len(nodes[l]) :
                /\ [nodes'[l][p] EXCEPT !.y = nodes[l][p].y] = nodes[l][p]
                /\ l = widest_level + 1 => nodes'[l][p].y = nodes[l][p].y

\* C7: the tree alignment leaves the reference level untouched and changes
\* nothing but offsets: the nodes of the widest level keep the offset of the
\* top-aligned packing, and every step of _layout_tree leaves every node's
\* height, value, level, colour and flow lists, and the flow list, as they were.
C7_TreeMovesOffsetsOnly == []ReferencePacked /\ [][TreeStep]_vars

\* a finished tree layout around a reference level in the middle, with a
\* node on either side that is off its packed offset
C7_Witness ==
    /\ IsTree(cfg) /\ pc = "done"
    /\ Len(nodes) = 3 /\ widest_level = 1
    /\ \E p \in 1..Len(nodes[1]) : nodes[1][p].y # PackedY(1, p)
    /\ \E p \in 1..Len(nodes[3]) : nodes[3][p].y # PackedY(3, p)

\* the part of the minimum node height that a node leaves on either side
Margin(node) ==
    IF RLt(node.height, cfg.node_height_pad_min)
    THEN RDiv(RSub(cfg.node_height_pad_min, node.height), RInt(2))
    ELSE Zero

FootprintTop(node) == RAdd(RAdd(node.y, node.height), Margin(node))
FootprintBottom(node) == RSub(node.y, Margin(node))

\* the padding between the footprints of node p and node p + 1 of a level
Gap(l, p) == RSub(FootprintBottom(nodes[l][p]), FootprintTop(nodes[l][p + 1]))

Heights(l) == List([p \in 1..Len(nodes[l]) |-> nodes[l][p].height])
Footprints(l) ==
    List([p \in 1..Len(nodes[l]) |-> RMax(nodes[l][p].height, cfg.node_height_pad_min)])
Gaps(l) == List([p \in 1..(Len(nodes[l]) - 1) |-> Gap(l, p)])

\* C4 as stated: every level laid out under 'justify' fills the axis: the
\* node heights plus the padding between adjacent nodes add up to 1, the
\* top edge of the first node is at 1 and the bottom of the footprint of the
\* last node is at 0.
C4_JustifyFills ==
    cfg.align_y = "justify" =>
        \A l \in 1..Len(nodes) :
            LET n == Len(nodes[l])
            IN  /\ RAdd(RSum(Heights(l)), RSum(Gaps(l))) = One
                /\ RAdd(nodes[l][1].y, nodes[l][1].height) = One
                /\ FootprintBottom(nodes[l][n]) = Zero

\* C4, amended: a level of two or more nodes laid out under 'justify' fills
\* the axis with the footprints of its nodes (the height, or the minimum node
\* height where the node is lower) and one padding, the same between every
\* two adjacent footprints: they add up to 1, the top of the first footprint
\* is at 1 and the bottom of the last is at 0.  A level of one node is
\* centred on the axis.
C4_JustifyFootprintsFill ==
    cfg.align_y = "justify" =>
        \A l \in 1..Len(nodes) :
            LET n == Len(nodes[l])
            IN  IF n = 1
                THEN RAdd(nodes[l][1].y, RDiv(nodes[l][1].height, RInt(2))) = <<1, 2>>
                ELSE /\ RAdd(RSum(Footprints(l)), RSum(Gaps(l))) = One
                     /\ \A p \in 1..(n - 1) : Gap(l, p) = Gap(l, 1)
                     /\ FootprintTop(nodes[l][1]) = One
                     /\ FootprintBottom(nodes[l][n]) = Zero

\* a justified level of two nodes, lower than the widest level, whose first
\* node is under the minimum node height
C4_Witness ==
    /\ cfg.align_y = "justify" /\ pc = "done"
    /\ \E l \in 1..Len(nodes) :
        /\ Len(nodes[l]) = 2
        /\ l # widest_level + 1
        /\ RLt(nodes[l][1].height, cfg.node_height_pad_min)
        /\ RLt(Zero, Gap(l, 1))

\* the diagram is one level with one node
SingleNode == Len(in_nodes) = 1 /\ Len(in_nodes[1]) = 1

\* C5 as stated: for a diagram of one level with one node, sankey()
\* completes under every alignment and the node's height is the level's
\* value divided by the scale of the diagram.
C5_SingleNodeCompletes ==
    SingleNode =>
        /\ pc # "error"
        /\ pc = "done" =>
            /\ Len(nodes) = 1 /\ Len(nodes[1]) = 1
            /\ nodes[1][1].height = RDiv(RInt(in_nodes[1][1].value), value_scale)

\* the pairs <<source, destination>> joined by a path of flows
RECURSIVE Closure(_)
Closure(R) ==
    LET R2 == R \cup {<<a[1], b[2]>> : a \in R, b \in {c \in R : TRUE}}
        step == R \cup {ab \in R2 : \E a \in R, b \in R :
                            a[2] = b[1] /\ ab = <<a[1], b[2]>>}
    IN  IF step = R THEN R ELSE Closure(step)

\* the flow list has no loop: no node reaches itself along flows
Acyclic(fl) ==
    LET R == Closure({<<fl[j].src, fl[j].des>> : j \in 1..Len(fl)})
    IN  \A ab \in R : ab[1] # ab[2]

\* the places <<l, p>> (1-based) where the inferred levels list a name
InferredAt(nm) ==
    {lp \in UNION {{<<l, p>> : p \in 1..Len(lv[l])} : l \in 1..Len(lv)} :
        lv[lp[1]][lp[2]].name = nm}

InferredLevel(nm) == (CHOOSE lp \in InferredAt(nm) : TRUE)[1]

\* C3 as stated: for a flow list without loops, in whatever order, the
\* inferred levels hold every name exactly once, every flow's destination
\* is on a later level than its source, and sankey() does not end in the
\* 'flow is backwards' error.
C3_InferForward ==
    (pc # "start" /\ Acyclic(in_flows)) =>
        /\ \A j \in 1..Len(in_flows) :
            /\ Cardinality(InferredAt(in_flows[j].src)) = 1
            /\ Cardinality(InferredAt(in_flows[j].des)) = 1
            /\ InferredLevel(in_flows[j].des) > InferredLevel(in_flows[j].src)
        /\ err # "ValueError"

\* the level (1-based) at which the nodes given to sankey() list a name,
\* 0 if they do not
GivenLevel(nm) ==
    LET at == {l \in 1..Len(in_nodes) :
                  \E p \in 1..Len(in_nodes[l]) : in_nodes[l][p].name = nm}
    IN  IF at = {} THEN 0 ELSE CHOOSE l \in at : \A o \in at : l <= o

\* a flow of the input names a node that is none of the diagram, or does
\* not lead to a later level
Malformed(flow) ==
    \/ GivenLevel(flow.src) = 0
    \/ GivenLevel(flow.des) = 0
    \/ GivenLevel(flow.des) <= GivenLevel(flow.src)

MalformedAt == {j \in 1..Len(in_flows) : Malformed(in_flows[j])}
FirstMalformed == CHOOSE b \in MalformedAt : \A o \in MalformedAt : b <= o

\* the flows that stand in a list of some node
ListedFlows ==
    UNION {{nodes[lp[1]][lp[2]].inflows[i] : i \in 1..Len(nodes[lp[1]][lp[2]].inflows)}
           \cup {nodes[lp[1]][lp[2]].outflows[i] :
                    i \in 1..Len(nodes[lp[1]][lp[2]].outflows)} : lp \in Places}

\* C9: a structural error aborts the call.  If a flow of the list names a
\* source or destination that is no node of the diagram, or leads to a level
\* that is not later than its source's, then sankey() does not complete and
\* the tree alignment does not run, neither the first such flow nor any flow
\* after it is appended to the flow list or to a list of a node, none after
\* it is processed, and the call ends in KeyError or ValueError at that flow.
C9_StructuralErrorAborts ==
    MalformedAt # {} =>
        /\ pc \notin {"done", "tree"}
        /\ Len(flows) < FirstMalformed
        /\ \A f \in ListedFlows : f.n < FirstMalformed /\ flows[f.n] = f
        /\ pc = "flows" => k < FirstMalformed
        /\ pc = "error" => /\ k = FirstMalformed - 1
                           /\ Len(flows) = FirstMalformed - 1
                           /\ err \in {"KeyError", "ValueError"}

\* a call under tree alignment that ended at a malformed second flow, with
\* the first flow attached and a third one left unprocessed
C9_Witness ==
    /\ IsTree(cfg) /\ pc = "error"
    /\ FirstMalformed = 2 /\ Len(in_flows) = 3 /\ ~Malformed(in_flows[3])
    /\ Len(flows) = 1 /\ Cardinality(ListedFlows) = 1

\* the colour of the created node called nm
ColorOf(nm) == NodeAt(nodes, find_node(nodes, nm)).color
GivenValue(nm) == ValueOf(in_nodes, nm)

\* the base colour the documentation gives flow j of the input
DocumentedColor(j) ==
    LET flow == in_flows[j]
        mode == IF flow.mode = "unset" THEN cfg.flow_color_mode ELSE flow.mode
    IN  IF mode = "source" THEN ColorOf(flow.src)
        ELSE IF mode = "dest" THEN ColorOf(flow.des)
        ELSE IF mode = "lesser"
        THEN IF GivenValue(flow.src) < GivenValue(flow.des)
             THEN ColorOf(flow.src) ELSE ColorOf(flow.des)
        ELSE IF mode = "greater"
        THEN IF GivenValue(flow.src) > GivenValue(flow.des)
             THEN ColorOf(flow.src) ELSE ColorOf(flow.des)
        ELSE "#AAAAAA"

\* C10 as stated: the colour mode of a flow is its own flow_color_mode if it
\* has one and the global one otherwise; under each of the modes 'source',
\* 'dest', 'lesser', 'greater' and None the flow is created with the colour
\* of its source, of its destination, of the endpoint of lower value, of the
\* endpoint of higher value, or the flat default; and a list of well-formed
\* flows under these modes does not make sankey() fail.
C10_ColorModesResolve ==
    /\ \A j \in 1..Len(flows) : flows[j].color[1] = DocumentedColor(j)
    /\ MalformedAt = {} => pc # "error"

\* the two calls of one history left the same result
SameAsFirst == first.set /\ Snap(nodes, flows, err) = first

\* every node and flow of the diagram was created by the current call
OwnObjects ==
    /\ \A lp \in Places : nodes[lp[1]][lp[2]].gen = call
    /\ \A f \in ListedFlows :
        f.gen = call /\ f.src[1] = call /\ f.des[1] = call
    /\ \A j \in 1..Len(flows) :
        flows[j].gen = call /\ flows[j].src[1] = call /\ flows[j].des[1] = call

\* the diagram is as sankey() left it: no caller has edited a node
AsReturned == \A lp \in Places : nodes[lp[1]][lp[2]].flow_pad = Zero

\* C8: a second call of sankey() with the same flows, nodes and options, on
\* the same Sankey object or on a new one, ends as the first one did, with
\* the same node offsets and heights and the same flow endpoint intervals,
\* and leaves no node or flow of the first call in the node levels, in the
\* flow list or in the list of any node.
C8_SecondCallSame ==
    (call >= 2 /\ pc \in {"done", "error"} /\ AsReturned) =>
        SameAsFirst /\ OwnObjects

\* a second call under tree alignment that has completed with two flows
\* and a node the aligner has moved
C8_Witness ==
    /\ call = 2 /\ pc = "done" /\ AsReturned /\ IsTree(cfg)
    /\ Len(flows) = 2
    /\ \E lp \in Places : nodes[lp[1]][lp[2]].y # PackedY(lp[1], lp[2])

\* the scale _value_scale_level returns for level l (1-based) of the input
LevelScale(l) == value_scale_level(cfg, lv[l]).scale

\* a is a number and b is one that is not below it
NotBelow(a, b) == a # NaN /\ b # NaN /\ RLe(a, b)

\* the scale of the diagram is the largest of the scales of the levels, and
\* the reference level is the first level that has it
ScaleIsMaximum ==
    /\ \A l \in 1..Len(lv) : NotBelow(LevelScale(l), value_scale)
    /\ LevelScale(widest_level + 1) = value_scale
    /\ \A l \in 1..widest_level : LevelScale(l) # value_scale

\* level l fills the axis with its footprints and the minimum padding
SpansAxis(l) ==
    /\ FootprintTop(nodes[l][1]) = One
    /\ FootprintBottom(nodes[l][Len(nodes[l])]) = Zero
    /\ \A p \in 1..(Len(nodes[l]) - 1) : Gap(l, p) = cfg.node_pad_y_min

\* the footprints of level l and the minimum padding between them fit the axis
FitsAxis(l) ==
    RLe(RAdd(RSum(Footprints(l)),
             RMul(cfg.node_pad_y_min, RInt(Len(nodes[l]) - 1))), One)

\* C11 as stated: the scale of the diagram is the maximum of the scales
\* _value_scale_level returns for the levels and the first level that
\* attains it is the reference level; packed under top, center, justify,
\* tree or tree clamp, the reference level spans the axis without slack
\* (top of the first footprint at 1, bottom of the last at 0, the minimum
\* padding between adjacent nodes), and the nodes of every other level with
\* the minimum padding fit an extent of at most 1.
C11_ReferenceSpansAxis ==
    (pc \in {"nodes", "tree", "done"} /\ cfg.align_y # "bottom") =>
        /\ ScaleIsMaximum
        /\ \A l \in 1..Len(nodes) :
            IF l = widest_level + 1 THEN SpansAxis(l) ELSE FitsAxis(l)

\* the padding _get_node_ys computes for level l (1-based) of the input
AppliedPad(l) == NodePadY(cfg, lv[l], value_scale)

\* the levels of two or more nodes that are packed with a scale not below
\* their own
PaddedLevels ==
    {l \in 1..Len(lv) : Len(lv[l]) >= 2 /\ NotBelow(LevelScale(l), value_scale)}

\* C12: for every level of two or more nodes whose alignment is not
\* 'justify', with node_pad_y_min <= node_pad_y_max and a scale of the
\* diagram that is not below the level's own scale, the padding
\* _get_node_ys applies between adjacent nodes lies in
\* [node_pad_y_min, node_pad_y_max]; it is the distance between the
\* footprints of adjacent nodes as _get_node_ys places them.
C12_PaddingInRange ==
    (/\ pc \in {"nodes", "tree", "done", "error"} /\ err # "ValueError"
     /\ cfg.align_y # "justify"
     /\ RLe(cfg.node_pad_y_min, cfg.node_pad_y_max)) =>
        \A l \in PaddedLevels :
            /\ RLe(cfg.node_pad_y_min, AppliedPad(l))
            /\ RLe(AppliedPad(l), cfg.node_pad_y_max)
            /\ (l <= Len(nodes) /\ (pc = "nodes" \/ ~IsTree(cfg))) =>
                \A p \in 1..(Len(nodes[l]) - 1) : Gap(l, p) = AppliedPad(l)

\* a centred level of two nodes, lower than the reference level, that has
\* more slack than the maximum padding takes
C12_Witness ==
    /\ pc = "done" /\ cfg.align_y = "center"
    /\ RLt(cfg.node_pad_y_min, cfg.node_pad_y_max)
    /\ \E l \in PaddedLevels :
        /\ l # widest_level + 1
        /\ Gap(l, 1) = cfg.node_pad_y_max
        /\ RLt(cfg.node_pad_y_max, level_node_max_padding(cfg, lv[l], value_scale))

\* the node lies within the axis
WithinAxis(node) == RLe(Zero, node.y) /\ RLe(RAdd(node.y, node.height), One)

\* the offsets of the nodes of level l packed tightly from the top, and the
\* slack of the level: the tight offset of its last node
TightY(l) == YMax(nodes[l], 1, One, cfg)
Slack(l) == TightY(l)[Len(nodes[l])]

\* how far node p of level l lies below its tight offset
ShiftOf(l, p) == RSub(TightY(l)[p], nodes[l][p].y)

\* C13 as stated: under 'tree clamp', after _layout_tree every node of every
\* level lies within the axis, 0 <= y and y + height <= 1, and the shift of
\* every node from its tightly packed offset lies in [0, slack of its level].
C13_ClampWithinAxis ==
    (cfg.align_y = "tree clamp" /\ pc = "done") =>
        \A l \in 1..Len(nodes) : \A p \in 1..Len(nodes[l]) :
            /\ WithinAxis(nodes[l][p])
            /\ RLe(Zero, ShiftOf(l, p))
            /\ RLe(ShiftOf(l, p), Slack(l))

\* the levels of the input that reach the while loop of _value_scale_level:
\* a minimum node height is set and the level passes the 'too large' check
FloorLevels ==
    {l \in 1..Len(lv) :
        /\ cfg.node_height_pad_min # Zero
        /\ value_scale_level(cfg, lv[l]).err = ""}

\* the while loop on level l, iteration by iteration
LoopOf(l) ==
    LET min_pad == RMul(cfg.node_pad_y_min, RInt(Len(lv[l]) - 1))
    IN  ScaleTrace(LevelValues(lv[l]),
                   RDiv(RSum(LevelValues(lv[l])), RSub(One, min_pad)),
                   0, min_pad, cfg.node_height_pad_min)

\* C14 as stated: for every level that passes the 'floor too large' check,
\* the while loop of _value_scale_level ends after at most as many
\* iterations as the level has nodes; every iteration removes at least one
\* node and does not decrease the scale; and on exit every node still
\* counted has value / scale strictly above the minimum node height.
C14_FloorLoopConverges ==
    pc # "start" =>
        \A l \in FloorLevels :
            LET trace == LoopOf(l)
                last == trace[Len(trace)]
            IN  /\ Len(trace) - 1 <= Len(lv[l])
                /\ \A i \in 1..(Len(trace) - 1) :
                    /\ Len(trace[i + 1].heights) < Len(trace[i].heights)
                    /\ NotBelow(trace[i].scale, trace[i + 1].scale)
                /\ \A j \in 1..Len(last.heights) :
                    /\ last.scale # NaN
                    /\ RLt(cfg.node_height_pad_min, RDiv(last.heights[j], last.scale))

\* the levels (0-based) _layout_tree has processed before it comes to level
\* stop, following its loops from level cur on
RECURSIVE VisitedFrom(_, _)
VisitedFrom(cur, stop) ==
    IF cur < 0 \/ cur = stop THEN {}
    ELSE {cur} \cup VisitedFrom(NextTreeLevel(cur, widest_level, Len(nodes)), stop)

\* the levels whose offsets are final when level k is processed: the
\* reference level and the levels processed before
Settled ==
    {widest_level} \cup VisitedFrom(FirstTreeLevel(widest_level, Len(nodes)), k)

\* the levels of the anchor nodes that the processing of level k reads
AnchorLevels ==
    LET right == k > widest_level
    IN  UNION {{(IF right THEN AnchorSide(nodes[k + 1][p], right)[i].src[2]
                 ELSE AnchorSide(nodes[k + 1][p], right)[i].des[2]) :
                    i \in 1..Len(AnchorSide(nodes[k + 1][p], right))} :
               p \in 1..Len(nodes[k + 1])}

\* C15 as stated: whenever the tree alignment processes a level, every
\* anchor node whose offset it reads lies in the reference level or in a
\* level that has been processed already, flows that skip levels included.
C15_AnchorsSettled ==
    pc = "tree" => AnchorLevels \subseteq Settled

\* the anchors of level k are settled, but for the sources left of the
\* reference level that a level right of it reads
AnchorsSettledOnOneSide ==
    pc = "tree" =>
        \A a \in AnchorLevels :
            a \in Settled \/ (k > widest_level /\ a < widest_level)

\* a step of _layout_tree moves the nodes of level k only, and goes on to a
\* level that is not settled yet
MovesOneLevel ==
    pc = "tree" =>
        /\ \A l \in 1..Len(nodes) : l # k + 1 => nodes'[l] = nodes[l]
        /\ pc' = "tree" => k' \notin Settled \cup {k}

\* C15, amended: whenever the tree alignment processes a level, every
\* anchor node whose offset it reads lies in the reference level or in a
\* level processed before, and its offset does not change afterwards,
\* except the sources of flows that cross the reference level: a level right
\* of the reference level reads the offset of a source left of it before the
\* source's level is processed.
C15_AnchorsSettledOnOneSide == []AnchorsSettledOnOneSide /\ [][MovesOneLevel]_vars

\* a level left of the reference level being processed, with an outflow
\* that skips the reference level to a level processed before
C15_Witness ==
    /\ pc = "tree" /\ k < widest_level
    /\ \E a \in AnchorLevels : a > widest_level /\ a \in Settled

====
